---- MODULE Spec2Model ----
(***************************************************************************)
(* specfmt: the OpenAPI response-schema refactoring pass of aeroapi-go.    *)
(*                                                                         *)
(* The model follows internal/specfmt/specfmt.go and cmd/specfmt/main.go.  *)
(* A yaml.Node is a record [kind, tag, value, content]; content is the     *)
(* flat child list of the Go struct (a mapping holds key, value, key,      *)
(* value, ...).  Pointers into the document are paths of content indices   *)
(* from the root.  The pass is a state machine whose steps are the         *)
(* iterations of the three nested loops of RefactorInlineResponseSchemas,  *)
(* wrapped in the steps of FormatFile.                                     *)
(***************************************************************************)
EXTENDS Integers, Sequences, FiniteSets, TLC

(***************************************************************************)
(* yaml.v3 node kinds (Kind is 1 << iota) as printed by %d in the          *)
(* fingerprint; 0 is the kind of no node at all (a nil pointer).           *)
(***************************************************************************)
DocumentNode == 1
SequenceNode == 2
MappingNode == 4
ScalarNode == 8

NilNode == [kind |-> 0, tag |-> "", value |-> "", content |-> <<>>]

\* A node as the YAML decoder builds it.
PScalar(v) == [kind |-> ScalarNode, tag |-> "!!str", value |-> v, content |-> <<>>]
PNull == [kind |-> ScalarNode, tag |-> "!!null", value |-> "", content |-> <<>>]
PMap(c) == [kind |-> MappingNode, tag |-> "!!map", value |-> "", content |-> c]
PSeq(c) == [kind |-> SequenceNode, tag |-> "!!seq", value |-> "", content |-> c]
PDoc(top) == [kind |-> DocumentNode, tag |-> "", value |-> "", content |-> <<top>>]

\* scalarNode(value): a node built by the program.
scalarNode(value) == [kind |-> ScalarNode, tag |-> "!!str", value |-> value, content |-> <<>>]
\* &yaml.Node{Kind: k, Content: c}: tag and value stay empty.
literalNode(k, c) == [kind |-> k, tag |-> "", value |-> "", content |-> c]

(***************************************************************************)
(* Go strings.  A string is a TLA+ string; the functions that look inside  *)
(* a string work on its sequence of characters, given by CharsOf for the   *)
(* strings the documents of the model hold.                                *)
(***************************************************************************)
CharsOf ==
  ( ""       :> <<>> ) @@
  ( "get_a"  :> <<"g","e","t","_","a">> ) @@
  ( "list_a" :> <<"l","i","s","t","_","a">> ) @@
  ( "get_b"  :> <<"g","e","t","_","b">> ) @@
  ( "get_"   :> <<"g","e","t","_">> ) @@
  ( "get"    :> <<"g","e","t">> ) @@
  ( "post"   :> <<"p","o","s","t">> ) @@
  ( "/x"     :> <<"/","x">> ) @@
  ( "/y"     :> <<"/","y">> ) @@
  ( "/z"     :> <<"/","z">> ) @@
  ( "200"    :> <<"2","0","0">> ) @@
  ( "201"    :> <<"2","0","1">> ) @@
  ( "202"    :> <<"2","0","2">> ) @@
  ( "203"    :> <<"2","0","3">> ) @@
  ( "204"    :> <<"2","0","4">> ) @@
  ( "205"    :> <<"2","0","5">> ) @@
  ( "206"    :> <<"2","0","6">> ) @@
  ( "207"    :> <<"2","0","7">> ) @@
  ( "404"    :> <<"4","0","4">> ) @@
  ( "Default" :> <<"D","e","f","a","u","l","t">> ) @@
  ( "default" :> <<"d","e","f","a","u","l","t">> ) @@
  ( "2XX"    :> <<"2","X","X">> ) @@
  ( "delete" :> <<"d","e","l","e","t","e">> ) @@
  ( "LIST_"  :> <<"L","I","S","T","_">> ) @@
  ( "/"      :> <<"/">> ) @@
  ( "/{id"   :> <<"/","{","i","d">> ) @@
  ( "/a_b//{c-d}/" :> <<"/","a","_","b","/","/","{","c","-","d","}","/">> ) @@
  ( "/flights/{id}/track" :>
      <<"/","f","l","i","g","h","t","s","/","{","i","d","}","/","t","r","a","c","k">> )

Chars(s) == CharsOf[s]

RECURSIVE Str(_)
Str(cs) == IF cs = <<>> THEN "" ELSE Head(cs) \o Str(Tail(cs))

UpperOf ==
  [c \in {"a","b","c","d","e","f","g","h","i","k","l","o","p","r","s","t","u","w","x","y","z"} |->
     CASE c = "a" -> "A" [] c = "b" -> "B" [] c = "c" -> "C" [] c = "d" -> "D"
       [] c = "e" -> "E" [] c = "f" -> "F" [] c = "g" -> "G" [] c = "h" -> "H"
       [] c = "i" -> "I" [] c = "k" -> "K" [] c = "l" -> "L" [] c = "o" -> "O"
       [] c = "p" -> "P" [] c = "r" -> "R" [] c = "s" -> "S" [] c = "t" -> "T"
       [] c = "u" -> "U" [] c = "w" -> "W" [] c = "x" -> "X" [] c = "y" -> "Y"
       [] c = "z" -> "Z"]

\* unicode.ToUpper on one rune
ToUpper(c) == IF c \in DOMAIN UpperOf THEN UpperOf[c] ELSE c

\* strings.ToLower, rune by rune
ToLowerCh(c) ==
  IF \E l \in DOMAIN UpperOf : UpperOf[l] = c
  THEN CHOOSE l \in DOMAIN UpperOf : UpperOf[l] = c
  ELSE c

ToLower(cs) == [n \in 1..Len(cs) |-> ToLowerCh(cs[n])]

\* strings.HasPrefix
HasPrefix(cs, p) == Len(cs) >= Len(p) /\ SubSeq(cs, 1, Len(p)) = p

\* strings.HasSuffix
HasSuffix(cs, p) == Len(cs) >= Len(p) /\ SubSeq(cs, Len(cs) - Len(p) + 1, Len(cs)) = p

\* strings.ReplaceAll for a one-character pattern
ReplaceAll(cs, old, new) == [n \in 1..Len(cs) |-> IF cs[n] = old THEN new ELSE cs[n]]

\* strings.Split for a one-character separator: "" splits into one empty part
splitCons(c, sep, rest) ==
  IF c = sep THEN << <<>> >> \o rest
  ELSE << <<c>> \o Head(rest) >> \o Tail(rest)

RECURSIVE Split(_, _)
Split(cs, sep) ==
  IF cs = <<>> THEN << <<>> >>
  ELSE splitCons(Head(cs), sep, Split(Tail(cs), sep))

\* A local of the code: the value v under the name the body F gives it.
With(v, F(_)) == F(v)

(***************************************************************************)
(* Name Deriver                                                            *)
(***************************************************************************)
\* The loop body of toPascalCase: skip an empty part, else upper-case its
\* first rune and keep the rest.
pascalPart(part) ==
  IF part = <<>> THEN <<>> ELSE <<ToUpper(part[1])>> \o Tail(part)

RECURSIVE pascalParts(_)
pascalParts(parts) ==
  IF parts = <<>> THEN <<>>
  ELSE pascalPart(Head(parts)) \o pascalParts(Tail(parts))

toPascalCaseChars(cs) == pascalParts(Split(ReplaceAll(cs, "-", "_"), "_"))

toPascalCase(s) == Str(toPascalCaseChars(Chars(s)))

prefixes ==
  << <<"g","e","t","_">>,
     <<"p","o","s","t","_">>,
     <<"p","u","t","_">>,
     <<"d","e","l","e","t","e","_">>,
     <<"p","a","t","c","h","_">>,
     <<"o","p","t","i","o","n","s","_">>,
     <<"h","e","a","d","_">>,
     <<"l","i","s","t","_">>,
     <<"c","r","e","a","t","e","_">>,
     <<"u","p","d","a","t","e","_">>,
     <<"r","e","m","o","v","e","_">> >>

\* Length of the first prefix of the list that the lower-cased identifier
\* starts with, 0 when none does: the loop over prefixes, with its break.
RECURSIVE firstPrefixLen(_, _)
firstPrefixLen(lower, n) ==
  IF n > Len(prefixes) THEN 0
  ELSE IF HasPrefix(lower, prefixes[n]) THEN Len(prefixes[n])
  ELSE firstPrefixLen(lower, n + 1)

deriveSchemaName(operationID) ==
  IF operationID = "" THEN ""
  ELSE With(Chars(operationID), LAMBDA cs :
       With(SubSeq(cs, firstPrefixLen(ToLower(cs), 1) + 1, Len(cs)), LAMBDA rest :
         IF rest = <<>> THEN "" ELSE Str(toPascalCaseChars(rest))))

\* The loop body without lines 409-411: a parameter keeps its braces.
pathPartKeepingBraces(p) ==
  IF p = <<>> THEN <<>> ELSE toPascalCaseChars(p)

\* The loop body of deriveNameFromPathAndMethod.
pathPart(p) ==
  IF p = <<>> THEN <<>>
  ELSE IF HasPrefix(p, <<"{">>) /\ HasSuffix(p, <<"}">>)
  THEN toPascalCaseChars(SubSeq(p, 2, Len(p) - 1))
  ELSE toPascalCaseChars(p)

RECURSIVE pathParts(_)
pathParts(parts) ==
  IF parts = <<>> THEN <<>>
  ELSE pathPart(Head(parts)) \o pathParts(Tail(parts))

deriveNameFromPathAndMethod(path, method) ==
  Str(pathParts(Split(Chars(path), "/")) \o toPascalCaseChars(ToLower(Chars(method))))

deriveResponseSchemaNameHint(path, method, operationID, status) ==
  With(deriveSchemaName(operationID), LAMBDA b1 :
  With(IF b1 = "" THEN deriveNameFromPathAndMethod(path, method) ELSE b1, LAMBDA b2 :
  With(IF b2 = "" THEN "Response" ELSE b2, LAMBDA base :
  With(IF status = "" THEN "Default" ELSE status, LAMBDA statusSuffix :
    base \o toPascalCase(statusSuffix) \o "Response"))))

(***************************************************************************)
(* YAML node helpers                                                       *)
(***************************************************************************)
\* Index in m.content of the value of the first entry whose key is `key`,
\* 0 when there is none: the loop of getMapValue.
RECURSIVE mapValueIndexFrom(_, _, _)
mapValueIndexFrom(m, key, n) ==
  IF n + 1 > Len(m.content) THEN 0
  ELSE IF m.content[n].value = key THEN n + 1
  ELSE mapValueIndexFrom(m, key, n + 2)

mapValueIndex(m, key) ==
  IF m = NilNode \/ m.kind # MappingNode THEN 0 ELSE mapValueIndexFrom(m, key, 1)

getMapValue(m, key) ==
  With(mapValueIndex(m, key), LAMBDA idx :
    IF idx = 0 THEN NilNode ELSE m.content[idx])

getMapValueExists(m, key) == getMapValue(m, key) # NilNode

\* ensureMapValue mutates m in place and returns a pointer to the value:
\* the mutated m, and the index of the returned value in it.
ensureMapValueNode(m, key) ==
  With(IF m.kind # MappingNode
       THEN [m EXCEPT !.kind = MappingNode, !.content = <<>>]
       ELSE m, LAMBDA m1 :
    IF getMapValue(m1, key) # NilNode THEN m1
    ELSE [m1 EXCEPT !.content = @ \o <<scalarNode(key), literalNode(MappingNode, <<>>)>>])

ensureMapValueIndex(m, key) == mapValueIndex(ensureMapValueNode(m, key), key)

\* An appendMapEntry that puts the new entry in front.
appendMapEntryInFront(m, key, value) ==
  [m EXCEPT !.content = <<scalarNode(key), value>> \o @]

appendMapEntry(m, key, value) == [m EXCEPT !.content = @ \o <<scalarNode(key), value>>]

\* A cloneNode that returns its argument: the same node object.
cloneNodeSharing(n) == n

\* A node this builds is a new object: it has the fields of n that the pass
\* reads, and not the address of n (see Addressed).
RECURSIVE cloneNode(_)
cloneNode(n) ==
  IF n = NilNode THEN NilNode
  ELSE [kind |-> n.kind, tag |-> n.tag, value |-> n.value,
        content |-> [c \in 1..Len(n.content) |-> cloneNode(n.content[c])]]

\* An isRefOnlySchema that recognises nothing.
isRefOnlySchemaNever(schema) == FALSE

isRefOnlySchema(schema) ==
  IF schema.kind # MappingNode THEN FALSE
  ELSE IF Len(schema.content) # 2 THEN FALSE
  ELSE schema.content[1].value = "$ref"

\* A makeRefOnlySchema without line 662: the old entries stay in front.
makeRefOnlySchemaKeepingContent(schema, compositeName) ==
  [schema EXCEPT !.content =
     @ \o <<scalarNode("$ref"), scalarNode("#/components/schemas/" \o compositeName)>>]

makeRefOnlySchema(schema, compositeName) ==
  [schema EXCEPT !.content =
     <<scalarNode("$ref"), scalarNode("#/components/schemas/" \o compositeName)>>]

\* The node a pointer (a path of content indices from n) points at.
RECURSIVE nodeAt(_, _)
nodeAt(n, p) == IF p = <<>> THEN n ELSE nodeAt(n.content[Head(p)], Tail(p))

\* The tree after the node at p was mutated into v.
RECURSIVE replaceAt(_, _, _)
replaceAt(n, p, v) ==
  IF p = <<>> THEN v
  ELSE [n EXCEPT !.content[Head(p)] = replaceAt(n.content[Head(p)], Tail(p), v)]

(***************************************************************************)
(* Fingerprint Function                                                    *)
(***************************************************************************)
RECURSIVE writeNodeFingerprint(_)
RECURSIVE writeChildren(_, _)
\* The loop over n.Content from child c on.
writeChildren(n, c) ==
  IF c > Len(n.content) THEN ""
  ELSE writeNodeFingerprint(n.content[c]) \o "|" \o writeChildren(n, c + 1)

writeNodeFingerprint(n) ==
  IF n = NilNode THEN "nil;"
  ELSE "K:" \o ToString(n.kind) \o ";T:" \o n.tag \o ";V:\"" \o n.value \o "\";"
         \o (IF Len(n.content) > 0 THEN "[" \o writeChildren(n, 1) \o "]" ELSE "")

schemaFingerprint(n) == writeNodeFingerprint(n)

(***************************************************************************)
(* Schema Registry.  The registry struct is the pair byFingerprint,        *)
(* existingNames plus the pointer schemasNode (a path from the root).  The *)
(* operations below take the mutable state they work on as a record        *)
(* st = [root, byFingerprint, existingNames] and give the state after,     *)
(* with what the Go function returns.                                      *)
(***************************************************************************)
\* The seeding loop of newSchemaRegistry from entry n on.
RECURSIVE seedByFingerprint(_, _, _)
seedByFingerprint(schemas, n, acc) ==
  IF n + 1 > Len(schemas.content) THEN acc
  ELSE seedByFingerprint(schemas, n + 2,
         With(schemaFingerprint(schemas.content[n + 1]), LAMBDA fp :
           IF fp # "" THEN (fp :> schemas.content[n].value) @@ acc ELSE acc))

newSchemaRegistry(schemas) ==
  IF schemas.kind = MappingNode
  THEN [byFingerprint |-> seedByFingerprint(schemas, 1, <<>>),
        existingNames |-> {schemas.content[n].value :
                             n \in {m \in 1..Len(schemas.content) : m % 2 = 1}}]
  ELSE [byFingerprint |-> <<>>, existingNames |-> {}]

\* The for loop of ensureUniqueName: name, then base2, base3, ...
RECURSIVE firstFreeName(_, _, _, _)
firstFreeName(existingNames, base, name, n) ==
  IF name \notin existingNames THEN name
  ELSE firstFreeName(existingNames, base, base \o ToString(n), n + 1)

ensureUniqueName(schemasNode, existingNames, base, fp) ==
  With(getMapValue(schemasNode, base), LAMBDA existing :
    IF existing # NilNode /\ schemaFingerprint(existing) = fp
    THEN base
    ELSE firstFreeName(existingNames, base, base, 2))

\* What a registry operation returns when it changes nothing.
noChange(st) ==
  [root |-> st.root, byFingerprint |-> st.byFingerprint,
   existingNames |-> st.existingNames, name |-> "", changed |-> FALSE]

componentizeSchema(st, schemasPath, schemaPath, nameHint) ==
  With(nodeAt(st.root, schemaPath), LAMBDA schemaNode :
    IF schemaNode = NilNode \/ schemaNode.kind # MappingNode THEN noChange(st)
    ELSE IF isRefOnlySchema(schemaNode) THEN noChange(st)
    ELSE With(schemaFingerprint(schemaNode), LAMBDA fp :
      IF fp \in DOMAIN st.byFingerprint
      THEN [root |-> replaceAt(st.root, schemaPath,
                               makeRefOnlySchema(schemaNode, st.byFingerprint[fp])),
            byFingerprint |-> st.byFingerprint,
            existingNames |-> st.existingNames,
            name |-> st.byFingerprint[fp], changed |-> TRUE]
      ELSE With(ensureUniqueName(nodeAt(st.root, schemasPath), st.existingNames,
                                 IF nameHint = "" THEN "InlineSchema" ELSE nameHint, fp),
                LAMBDA name :
        [root |-> replaceAt(
                    replaceAt(st.root, schemasPath,
                              appendMapEntry(nodeAt(st.root, schemasPath), name,
                                             cloneNode(schemaNode))),
                    schemaPath, makeRefOnlySchema(schemaNode, name)),
         byFingerprint |-> (fp :> name) @@ st.byFingerprint,
         existingNames |-> st.existingNames \cup {name},
         name |-> name, changed |-> TRUE])))

(***************************************************************************)
(* Pattern Detector and composite builder                                  *)
(***************************************************************************)
\* getMapValue(n, key) is there and its Value is v.
hasValue(n, key, v) ==
  With(getMapValue(n, key), LAMBDA t : t # NilNode /\ t.value = v)

\* getMapValue(n, key) is there and is a mapping.
hasMapping(n, key) ==
  With(getMapValue(n, key), LAMBDA t : t # NilNode /\ t.kind = MappingNode)

isInlineObjectWithAlternatives(baseNode, extNode) ==
  IF baseNode.kind # MappingNode \/ extNode.kind # MappingNode THEN FALSE
  ELSE IF ~hasValue(baseNode, "type", "object") THEN FALSE
  ELSE IF ~hasValue(extNode, "type", "object") THEN FALSE
  ELSE IF ~hasMapping(extNode, "properties") THEN FALSE
  ELSE With(getMapValue(extNode, "properties"), LAMBDA extProps :
    IF ~hasMapping(extProps, "alternatives") THEN FALSE
    ELSE With(getMapValue(extProps, "alternatives"), LAMBDA alts :
      IF ~hasValue(alts, "type", "array") THEN FALSE
      ELSE IF ~hasMapping(alts, "items") THEN FALSE
      ELSE IF ~hasValue(getMapValue(alts, "items"), "type", "object") THEN FALSE
      ELSE TRUE))

\* The reference-only mapping buildCompositeSchema writes twice.
refLiteral(refValue) ==
  literalNode(MappingNode, <<scalarNode("$ref"), scalarNode(refValue)>>)

buildCompositeSchema(baseName) ==
  literalNode(MappingNode, <<
    scalarNode("allOf"),
    literalNode(SequenceNode, <<
      refLiteral("#/components/schemas/" \o baseName),
      literalNode(MappingNode, <<
        scalarNode("type"), scalarNode("object"),
        scalarNode("properties"),
        literalNode(MappingNode, <<
          scalarNode("alternatives"),
          literalNode(MappingNode, <<
            scalarNode("type"), scalarNode("array"),
            scalarNode("description"),
            scalarNode("An array of other possible matches"),
            scalarNode("items"),
            refLiteral("#/components/schemas/" \o baseName) >>) >>) >>) >>) >>)

(***************************************************************************)
(* Alternatives Rewrite and the per-response step of the walker            *)
(***************************************************************************)
\* The state after `node` was appended to components.schemas under `name`
\* and registered, when no entry of that name exists yet; else the state.
addIfAbsent(st, schemasPath, name, node) ==
  IF ~getMapValueExists(nodeAt(st.root, schemasPath), name)
  THEN [root |-> replaceAt(st.root, schemasPath,
                           appendMapEntry(nodeAt(st.root, schemasPath), name, node)),
        byFingerprint |-> (schemaFingerprint(node) :> name) @@ st.byFingerprint,
        existingNames |-> st.existingNames \cup {name}]
  ELSE [root |-> st.root, byFingerprint |-> st.byFingerprint,
        existingNames |-> st.existingNames]

handleAlternativesPattern(st, schemasPath, path, method, operationID, status, schemaPath, basePath) ==
  With(deriveSchemaName(operationID), LAMBDA baseName :
    IF baseName = ""
    THEN componentizeSchema(st, schemasPath, schemaPath,
           deriveResponseSchemaNameHint(path, method, operationID, status))
    ELSE With(baseName \o "WithAlternatives", LAMBDA compositeName :
         With(addIfAbsent(st, schemasPath, baseName,
                          cloneNode(nodeAt(st.root, basePath))), LAMBDA s1 :
         With(addIfAbsent(s1, schemasPath, compositeName,
                          buildCompositeSchema(baseName)), LAMBDA s2 :
           [root |-> replaceAt(s2.root, schemaPath,
                       makeRefOnlySchema(nodeAt(s2.root, schemaPath), compositeName)),
            byFingerprint |-> s2.byFingerprint,
            existingNames |-> s2.existingNames,
            name |-> compositeName, changed |-> TRUE]))))

\* The keys in another order: the plain spelling first.
jsonContentTypesPlainFirst ==
  << "application/json", "application/json; charset=UTF-8",
     "application/json; charset=utf-8" >>

\* The media-type keys processResponseSchema tries, in this order.
jsonContentTypes ==
  << "application/json; charset=UTF-8", "application/json",
     "application/json; charset=utf-8" >>

\* Index in contentNode.content of the value of the first of the keys from
\* n on that is present, 0 when none is: the loop with its break.
RECURSIVE appJSONIndex(_, _)
appJSONIndex(contentNode, n) ==
  IF n > Len(jsonContentTypes) THEN 0
  ELSE IF getMapValue(contentNode, jsonContentTypes[n]) # NilNode
  THEN mapValueIndex(contentNode, jsonContentTypes[n])
  ELSE appJSONIndex(contentNode, n + 1)

\* The pointer to the schema processResponseSchema works on (a path from
\* the root), <<>> when one of its early returns is taken first.
responseSchemaPath(root, responsePath) ==
  With(nodeAt(root, responsePath), LAMBDA responseNode :
    IF responseNode.kind # MappingNode THEN <<>>
    ELSE With(getMapValue(responseNode, "content"), LAMBDA contentNode :
      IF contentNode = NilNode \/ contentNode.kind # MappingNode THEN <<>>
      ELSE With(appJSONIndex(contentNode, 1), LAMBDA appIdx :
        IF appIdx = 0 THEN <<>>
        ELSE With(contentNode.content[appIdx], LAMBDA appJSON :
          IF appJSON.kind # MappingNode THEN <<>>
          ELSE With(getMapValue(appJSON, "schema"), LAMBDA schemaNode :
            IF schemaNode = NilNode \/ schemaNode.kind # MappingNode THEN <<>>
            ELSE responsePath \o << mapValueIndex(responseNode, "content"), appIdx,
                                    mapValueIndex(appJSON, "schema") >>)))))

\* allOfNode is a two-element sequence matching the alternatives shape.
isAlternativesAllOf(allOfNode) ==
  /\ allOfNode # NilNode
  /\ allOfNode.kind = SequenceNode
  /\ Len(allOfNode.content) = 2
  /\ isInlineObjectWithAlternatives(allOfNode.content[1], allOfNode.content[2])

processResponseSchema(st, schemasPath, path, method, operationID, status, responsePath) ==
  With(responseSchemaPath(st.root, responsePath), LAMBDA schemaPath :
    IF schemaPath = <<>> THEN noChange(st)
    ELSE With(nodeAt(st.root, schemaPath), LAMBDA schemaNode :
      IF isRefOnlySchema(schemaNode) THEN noChange(st)
      ELSE IF isAlternativesAllOf(getMapValue(schemaNode, "allOf"))
      THEN handleAlternativesPattern(st, schemasPath, path, method, operationID,
                                     status, schemaPath,
                                     schemaPath \o <<mapValueIndex(schemaNode, "allOf"), 1>>)
      ELSE componentizeSchema(st, schemasPath, schemaPath,
             deriveResponseSchemaNameHint(path, method, operationID, status))))

(***************************************************************************)
(* Input documents: the trees the YAML decoder hands to the pass.          *)
(***************************************************************************)
\* Number of entries of `paths` in an input document.
MaxPaths == 2
\* Number of times the pass is applied to one tree.
MaxPasses == 2

ObjP == PMap(<<PScalar("type"), PScalar("object"), PScalar("title"), PScalar("P")>>)
ObjQ == PMap(<<PScalar("type"), PScalar("object"), PScalar("title"), PScalar("Q")>>)

\* allOf[base, {type: object, properties: {alternatives: {type: array, items}}}]
AllOfAlternatives(base, items) ==
  PMap(<<PScalar("allOf"),
         PSeq(<<base,
                PMap(<<PScalar("type"), PScalar("object"),
                       PScalar("properties"),
                       PMap(<<PScalar("alternatives"),
                              PMap(<<PScalar("type"), PScalar("array"),
                                     PScalar("items"), items>>)>>)>>)>>)>>)

RefTo(name) == PMap(<<PScalar("$ref"), PScalar("#/components/schemas/" \o name)>>)

\* A response with one media type.
Response(mediaType, schema) ==
  PMap(<<PScalar("description"), PScalar("ok"),
         PScalar("content"),
         PMap(<<PScalar(mediaType), PMap(<<PScalar("schema"), schema>>)>>)>>)

\* A response with two JSON media types.
Response2(schema1, schema2) ==
  PMap(<<PScalar("content"),
         PMap(<<PScalar("application/json"), PMap(<<PScalar("schema"), schema2>>),
                PScalar("application/json; charset=UTF-8"),
                PMap(<<PScalar("schema"), schema1>>)>>)>>)

Operation(operationID, responses) ==
  PMap((IF operationID = "" THEN <<>>
        ELSE <<PScalar("operationId"), PScalar(operationID)>>)
       \o <<PScalar("responses"), PMap(responses)>>)

\* A path item with one operation that has one JSON response.
PathItem(method, operationID, schema) ==
  PMap(<<PScalar(method),
         Operation(operationID,
                   <<PScalar("200"), Response("application/json", schema)>>)>>)

\* A path item with a vendor key, a method that is no mapping, an operation
\* with two statuses, an operation without responses and an operation whose
\* identifier is only a prefix, with a response under the empty status.
PathItemMany ==
  PMap(<<PScalar("x-ext"), PScalar("v"),
         PScalar("put"), PScalar("v"),
         PScalar("get"),
         Operation("get_b",
           <<PScalar("200"), Response("application/json", AllOfAlternatives(ObjP, ObjP)),
             PScalar("404"), Response("application/json", ObjP)>>),
         PScalar("head"), PMap(<<PScalar("operationId"), PScalar("get_b")>>),
         PScalar("post"),
         Operation("get_", <<PScalar(""), Response("application/json", ObjQ)>>)>>)

\* A path item whose responses take the early returns of processResponseSchema,
\* two that carry more than one JSON media type, and a reference-only schema
\* at the end.
PathItemOdd ==
  PMap(<<PScalar("get"),
         Operation("get_b",
           <<PScalar("200"), PScalar("v"),
             PScalar("201"), PMap(<<PScalar("description"), PScalar("ok")>>),
             PScalar("202"), Response("text/plain", ObjP),
             PScalar("203"), PMap(<<PScalar("content"),
                                    PMap(<<PScalar("application/json"), PScalar("v"),
                                           PScalar("application/json; charset=utf-8"),
                                           PMap(<<PScalar("schema"), ObjP>>)>>)>>),
             PScalar("204"), Response("application/json", PScalar("v")),
             PScalar("205"), Response("application/json; charset=utf-8", ObjQ),
             PScalar("207"), Response2(ObjP, ObjQ),
             PScalar("206"), Response("application/json", RefTo("A"))>>)>>)

PathItems ==
  { PathItem("get", "get_a", ObjP),
    PathItem("post", "list_a", ObjQ),
    PathItem("get", "get_a", AllOfAlternatives(ObjP, ObjP)),
    PathItem("get", "get_b", AllOfAlternatives(ObjP, ObjP)),
    PathItem("get", "list_a", AllOfAlternatives(ObjQ, ObjP)),
    PathItem("get", "", AllOfAlternatives(ObjP, ObjP)),
    PScalar("v"),
    PathItemMany,
    PathItemOdd }

PathKeys == <<"/x", "/y", "/z">>

\* The `paths` mapping with the given path items, keyed /x, /y, ...
RECURSIVE pathEntries(_, _)
pathEntries(items, n) ==
  IF n > Len(items) THEN <<>>
  ELSE <<PScalar(PathKeys[n]), items[n]>> \o pathEntries(items, n + 1)

PathsSections ==
  { PMap(pathEntries(items, 1)) :
      items \in UNION { [1..n -> PathItems] : n \in 0..MaxPaths } }

\* The `components` entry of the top-level mapping: none, or some value.
ComponentsSections ==
  { <<>>,
    <<PScalar("components"), PNull>>,
    <<PScalar("components"), PMap(<<PScalar("schemas"), PNull>>)>>,
    <<PScalar("components"),
      PMap(<<PScalar("schemas"),
             PMap(<<PScalar("Shared"), ObjP,
                    PScalar("A200Response"),
                    PMap(<<PScalar("type"), PScalar("string")>>),
                    PScalar("A200Response2"),
                    PMap(<<PScalar("type"), PScalar("integer")>>),
                    PScalar("AWithAlternatives"), ObjQ>>)>>)>> }

Documents ==
  { PDoc(PMap(<<PScalar("openapi"), PScalar("3.0.0"), PScalar("paths"), paths>> \o comps)) :
      paths \in PathsSections, comps \in ComponentsSections }
  \cup
  \* documents the structure checks reject
  { PDoc(PScalar("v")),
    PDoc(PSeq(<<PScalar("v")>>)),
    PDoc(PMap(<<PScalar("openapi"), PScalar("3.0.0")>>)),
    PDoc(PMap(<<PScalar("paths"), PScalar("v")>>)),
    PDoc(PMap(<<PScalar("components"), PNull, PScalar("paths"), PNull>>)) }

\* Documents with one response each, for the Name Deriver: paths with
\* parameters, empty segments and separators, operations without an
\* operationId or with one that is only a prefix, and the kinds of status key.
NamePaths == {"/flights/{id}/track", "/", "/a_b//{c-d}/", "/{id", "/x"}
NameMethods == {"get", "post", "delete"}
NameOperationIDs == {"", "get_", "LIST_", "get_a"}
NameStatuses == {"200", "", "default", "2XX"}

NameDocuments ==
  { PDoc(PMap(<<PScalar("paths"),
                PMap(<<PScalar(p),
                       PMap(<<PScalar(m),
                              Operation(o, <<PScalar(st),
                                             Response("application/json", ObjP)>>)>>)>>)>>)) :
      p \in NamePaths, m \in NameMethods, o \in NameOperationIDs, st \in NameStatuses }

\* Node objects have identity.  A node the decoder built carries in `addr`
\* the place it was built at, which no other node has; a mutation in place
\* (EXCEPT) keeps the address, and a node the program builds (scalarNode,
\* literalNode, cloneNode) is a new object without one.
RECURSIVE Addressed(_, _)
Addressed(n, p) ==
  [kind |-> n.kind, tag |-> n.tag, value |-> n.value,
   content |-> [c \in 1..Len(n.content) |-> Addressed(n.content[c], p \o <<c>>)],
   addr |-> p]

AddressedDocuments == {Addressed(d, <<>>) : d \in Documents}

(***************************************************************************)
(* State                                                                   *)
(***************************************************************************)
VARIABLES
  pc,             \* the step the run is at
  cmd,            \* FormatCmd: [Input, Output, DryRun]
  outPath,        \* FormatFile's outPath
  files,          \* the file system: path -> [state, tree]
  root,           \* the decoded document (NilNode before parseYAML)
  schemasPath,    \* the pointer schemasNode, as a path from root
  byFingerprint,  \* schemaRegistry.byFingerprint
  existingNames,  \* schemaRegistry.existingNames
  i, j, k,        \* the loop indices of RefactorInlineResponseSchemas
  operationID,    \* operationID of the operation the walker is in
  changed,        \* the local `changed` of RefactorInlineResponseSchemas
  err,            \* the error FormatFile or the pass returned, "" for nil
  pass,           \* how many times the pass was called on this tree
  rootAtCall,     \* history: the tree as the current call of the pass got it
  sites           \* history: the use-sites processResponseSchema looked at,
                  \* with what it returned and the registry it found

vars == << pc, cmd, outPath, files, root, schemasPath, byFingerprint, existingNames,
           i, j, k, operationID, changed, err, pass, rootAtCall, sites >>

walk == << i, j, k, operationID >>
registry == << schemasPath, byFingerprint, existingNames >>
cli == << cmd, outPath >>

InPath == "in.yaml"
OtherPath == "out.yaml"

\* What a file holds: a YAML document, text that is no YAML, nothing that
\* can be opened, nothing yet (created or truncated), or a cut-off encoding.
File(state, tree) == [state |-> state, tree |-> tree]

\* yaml.Encoder output for a tree, as the tree a decoder reads back from it:
\* a scalar is written by tag and value (children it may hold are not
\* written), a collection by its children, under its tag or, when it has
\* none, the tag of its kind.
RECURSIVE encodeYAML(_)
encodeYAML(n) ==
  IF n.kind = ScalarNode THEN [n EXCEPT !.content = <<>>]
  ELSE [kind |-> n.kind,
        tag |-> CASE n.tag # "" -> n.tag
                  [] n.kind = MappingNode -> "!!map"
                  [] n.kind = SequenceNode -> "!!seq"
                  [] OTHER -> "",
        value |-> "",
        content |-> [c \in 1..Len(n.content) |-> encodeYAML(n.content[c])]]

\* The state a run starts in, with one of inFiles as the input file.
Start(inFiles) ==
  /\ pc = "run"
  /\ cmd \in [Input : {InPath}, Output : {"", OtherPath}, DryRun : BOOLEAN]
  /\ outPath = ""
  /\ \E inFile \in inFiles :
       files = (InPath :> inFile) @@ (OtherPath :> File("absent", NilNode))
  /\ root = NilNode
  /\ schemasPath = <<>>
  /\ byFingerprint = <<>>
  /\ existingNames = {}
  /\ i = 0 /\ j = 0 /\ k = 0
  /\ operationID = ""
  /\ changed = FALSE
  /\ err = ""
  /\ pass = 0
  /\ rootAtCall = NilNode
  /\ sites = <<>>

Init ==
  Start({File("doc", d) : d \in Documents}
          \cup {File("garbage", NilNode), File("unreadable", NilNode)})

\* Runs on documents whose nodes carry their addresses.
InitAddressed == Start({File("doc", d) : d \in AddressedDocuments})

\* Runs on the documents of the Name Deriver.
InitNames == Start({File("doc", d) : d \in NameDocuments})

(***************************************************************************)
(* cmd/specfmt: FormatCmd.Run                                              *)
(***************************************************************************)
Run ==
  /\ pc = "run"
  /\ outPath' = (IF cmd.Output = "" THEN cmd.Input ELSE cmd.Output)
  /\ pc' = "open"
  /\ UNCHANGED << cmd, files, root, registry, walk, changed, err, pass, rootAtCall, sites >>

(***************************************************************************)
(* FormatFile                                                              *)
(***************************************************************************)
\* os.Open(inPath)
Open ==
  /\ pc = "open"
  /\ IF files[cmd.Input].state = "unreadable"
     THEN err' = "open input" /\ pc' = "done"
     ELSE err' = err /\ pc' = "parse"
  /\ UNCHANGED << cli, files, root, registry, walk, changed, pass, rootAtCall, sites >>

\* parseYAML(f)
ParseYAML ==
  /\ pc = "parse"
  /\ IF files[cmd.Input].state = "doc"
     THEN root' = files[cmd.Input].tree /\ err' = err /\ pc' = "refactor"
     ELSE root' = root /\ err' = "decode YAML" /\ pc' = "done"
  /\ UNCHANGED << cli, files, registry, walk, changed, pass, rootAtCall, sites >>

(***************************************************************************)
(* RefactorInlineResponseSchemas                                           *)
(***************************************************************************)
\* A return whose error the caller drops.
ReturnDroppingError(e, ch, call) ==
  /\ err' = ""
  /\ changed' = ch
  /\ pc' = IF call > 1 THEN "done" ELSE "dryrun"

\* Where a call of the pass returns to: FormatFile after the first call.
Return(e, ch, call) ==
  /\ err' = e
  /\ changed' = ch
  /\ pc' = IF e # "" \/ call > 1 THEN "done" ELSE "dryrun"

\* top after ensureMapValue(top, "components") and
\* ensureMapValue(componentsNode, "schemas") mutated it in place.
topAfterEnsure(top) ==
  With(ensureMapValueNode(top, "components"), LAMBDA top1 :
  With(mapValueIndex(top1, "components"), LAMBDA cIdx :
    [top1 EXCEPT !.content[cIdx] = ensureMapValueNode(top1.content[cIdx], "schemas")]))

\* The pointer schemasNode those two calls return, as a path from the root.
schemasPathOf(top) ==
  With(ensureMapValueNode(top, "components"), LAMBDA top1 :
  With(mapValueIndex(top1, "components"), LAMBDA cIdx :
    <<1, cIdx, ensureMapValueIndex(top1.content[cIdx], "schemas")>>))

pathsPath(r) == <<1, mapValueIndex(r.content[1], "paths")>>

\* Lines 209-216: the registry is built, then the paths section is checked.
RegistryAndPaths(reg, pathsNode) ==
  /\ byFingerprint' = reg.byFingerprint
  /\ existingNames' = reg.existingNames
  /\ IF pathsNode = NilNode \/ pathsNode.kind # MappingNode
     THEN /\ Return("missing or invalid 'paths' section", FALSE, pass + 1)
          /\ UNCHANGED walk
     ELSE /\ changed' = FALSE
          /\ err' = err
          /\ i' = 0 /\ j' = 0 /\ k' = 0
          /\ operationID' = ""
          /\ pc' = "paths"

\* Lines 206-207: root1 is the tree after the two ensureMapValue calls.
EnsureComponents(root1, sp) ==
  /\ root' = root1
  /\ schemasPath' = sp
  /\ RegistryAndPaths(newSchemaRegistry(nodeAt(root1, sp)),
                      getMapValue(root1.content[1], "paths"))

\* Lines 198-216: the structure checks, the registry, the paths section.
RefactorStart ==
  /\ pc = "refactor"
  /\ pass' = pass + 1
  /\ rootAtCall' = root
  /\ IF root.kind # DocumentNode \/ Len(root.content) = 0
     THEN /\ Return("expected YAML document", FALSE, pass + 1)
          /\ UNCHANGED << root, registry, walk >>
     ELSE IF root.content[1].kind # MappingNode
     THEN /\ Return("expected top-level mapping", FALSE, pass + 1)
          /\ UNCHANGED << root, registry, walk >>
     ELSE EnsureComponents([root EXCEPT !.content[1] = topAfterEnsure(root.content[1])],
                           schemasPathOf(root.content[1]))
  /\ UNCHANGED << cli, files, sites >>

pathsNodeOf(r) == nodeAt(r, pathsPath(r))
\* pathVal, methodVal, respNode at the current indices (Go indices from 0).
pathValOf(r) == pathsNodeOf(r).content[i + 2]
methodValOf(r) == pathValOf(r).content[j + 2]
respPathOf(r) ==
  pathsPath(r) \o <<i + 2, j + 2, mapValueIndex(methodValOf(r), "responses")>>

\* A switch of line 231 without the post case.
isMethodButPost(method) ==
  method \in {"get", "put", "delete", "patch", "options", "head"}

isMethod(method) ==
  method \in {"get", "post", "put", "delete", "patch", "options", "head"}

\* One iteration of the loop over paths, or its end and the return.
PathsLoop ==
  /\ pc = "paths"
  /\ IF i >= Len(pathsNodeOf(root).content)
     THEN /\ Return("", changed, pass)
          /\ UNCHANGED walk
     ELSE IF pathValOf(root).kind # MappingNode
     THEN /\ i' = i + 2
          /\ UNCHANGED << j, k, operationID, pc, err, changed >>
     ELSE /\ j' = 0
          /\ pc' = "methods"
          /\ UNCHANGED << i, k, operationID, err, changed >>
  /\ UNCHANGED << cli, files, root, registry, pass, rootAtCall, sites >>

\* Lines 226-249: the body of the loop over the keys of a path item.
MethodStep(method, methodVal, opIDNode, respNode) ==
  IF \/ ~isMethod(method)
     \/ methodVal.kind # MappingNode
     \/ respNode = NilNode \/ respNode.kind # MappingNode
  THEN /\ j' = j + 2
       /\ UNCHANGED << i, k, operationID, pc >>
  ELSE /\ operationID' = (IF opIDNode # NilNode /\ opIDNode.kind = ScalarNode
                          THEN opIDNode.value ELSE "")
       /\ k' = 0
       /\ pc' = "responses"
       /\ UNCHANGED << i, j >>

\* One iteration of the loop over the keys of a path item, or its end.
MethodsLoop ==
  /\ pc = "methods"
  /\ IF j >= Len(pathValOf(root).content)
     THEN /\ i' = i + 2
          /\ pc' = "paths"
          /\ UNCHANGED << j, k, operationID >>
     ELSE MethodStep(pathValOf(root).content[j + 1].value, methodValOf(root),
                     getMapValue(methodValOf(root), "operationId"),
                     getMapValue(methodValOf(root), "responses"))
  /\ UNCHANGED << cli, files, root, registry, changed, err, pass, rootAtCall, sites >>

\* A walker that assigns changedHere to changed (changed = changedHere
\* in place of lines 262-264).
ProcessedLastWins(path, method, status, responsePath, r) ==
  /\ root' = r.root
  /\ byFingerprint' = r.byFingerprint
  /\ existingNames' = r.existingNames
  /\ changed' = r.changed
  /\ k' = k + 2
  /\ sites' = Append(sites,
       [pass |-> pass, path |-> path, method |-> method,
        operationID |-> operationID, status |-> status,
        response |-> responsePath, name |-> r.name, changedHere |-> r.changed,
        namesBefore |-> existingNames, fpsBefore |-> DOMAIN byFingerprint])
  /\ UNCHANGED << i, j, operationID, pc >>

\* Lines 255-264: what the walker does with the result r of
\* processResponseSchema, and the record of the use-site it looked at.
Processed(path, method, status, responsePath, r) ==
  /\ root' = r.root
  /\ byFingerprint' = r.byFingerprint
  /\ existingNames' = r.existingNames
  /\ changed' = (IF r.changed THEN TRUE ELSE changed)
  /\ k' = k + 2
  /\ sites' = Append(sites,
       [pass |-> pass, path |-> path, method |-> method,
        operationID |-> operationID, status |-> status,
        response |-> responsePath, name |-> r.name, changedHere |-> r.changed,
        namesBefore |-> existingNames, fpsBefore |-> DOMAIN byFingerprint])
  /\ UNCHANGED << i, j, operationID, pc >>

\* Lines 251-258: the body of the loop over responses.
ResponseStep(path, method, respPath, respNode) ==
  IF k >= Len(respNode.content)
  THEN /\ j' = j + 2
       /\ pc' = "methods"
       /\ UNCHANGED << i, k, operationID, root, byFingerprint, existingNames,
                       changed, sites >>
  ELSE Processed(path, method, respNode.content[k + 1].value, respPath \o <<k + 2>>,
         processResponseSchema(
           [root |-> root, byFingerprint |-> byFingerprint,
            existingNames |-> existingNames],
           schemasPath, path, method, operationID,
           respNode.content[k + 1].value, respPath \o <<k + 2>>))

\* One iteration of the loop over responses (processResponseSchema and the
\* update of `changed`), or its end.
ResponsesLoop ==
  /\ pc = "responses"
  /\ ResponseStep(pathsNodeOf(root).content[i + 1].value,
                  pathValOf(root).content[j + 1].value,
                  respPathOf(root), nodeAt(root, respPathOf(root)))
  /\ UNCHANGED << cli, files, schemasPath, err, pass, rootAtCall >>

\* A caller applies the exported pass again to the tree it got back.
RefactorAgain ==
  /\ pc = "done"
  /\ err = ""
  /\ pass >= 1
  /\ pass < MaxPasses
  /\ pc' = "refactor"
  /\ UNCHANGED << cli, files, root, registry, walk, changed, err, pass, rootAtCall, sites >>

(***************************************************************************)
(* FormatFile, after the pass                                              *)
(***************************************************************************)
\* FormatFile without lines 145-150: the dry-run flag is not looked at.
DryRunIgnored ==
  /\ pc = "dryrun"
  /\ pc' = (IF ~changed THEN "done" ELSE "create")
  /\ UNCHANGED << cli, files, root, registry, walk, changed, err, pass, rootAtCall, sites >>

\* if opts.DryRun { return nil }; if !changed { return nil }
DryRunOrUnchanged ==
  /\ pc = "dryrun"
  /\ pc' = (IF cmd.DryRun THEN "done" ELSE IF ~changed THEN "done" ELSE "create")
  /\ UNCHANGED << cli, files, root, registry, walk, changed, err, pass, rootAtCall, sites >>

\* os.Create(outPath): the file is created or truncated, or the call fails.
Create ==
  /\ pc = "create"
  /\ \/ /\ files' = [files EXCEPT ![outPath] = File("empty", NilNode)]
        /\ pc' = "write"
        /\ err' = err
     \/ /\ files' = files
        /\ pc' = "done"
        /\ err' = "create output"
  /\ UNCHANGED << cli, root, registry, walk, changed, pass, rootAtCall, sites >>

\* writeYAML(out, root): the encoding is written, or the encoder fails.
WriteYAML ==
  /\ pc = "write"
  /\ \/ /\ files' = [files EXCEPT ![outPath] = File("doc", encodeYAML(root))]
        /\ err' = err
     \/ /\ files' = [files EXCEPT ![outPath] = File("partial", NilNode)]
        /\ err' = "encode YAML"
  /\ pc' = "done"
  /\ UNCHANGED << cli, root, registry, walk, changed, pass, rootAtCall, sites >>

Next ==
  \/ Run
  \/ Open
  \/ ParseYAML
  \/ RefactorStart
  \/ PathsLoop
  \/ MethodsLoop
  \/ ResponsesLoop
  \/ RefactorAgain
  \/ DryRunOrUnchanged
  \/ Create
  \/ WriteYAML

Spec == Init /\ [][Next]_vars

NameSpec == InitNames /\ [][Next]_vars

AddressSpec == InitAddressed /\ [][Next]_vars

(***************************************************************************)
(* Vocabulary of the properties                                            *)
(***************************************************************************)
\* FormatFile returned nil and no caller has applied the pass again:
\* rootAtCall is the parsed input, root the tree after the pass.
Completed == pc = "done" /\ err = "" /\ pass = 1

\* A mapping with exactly one entry, whose key is $ref.
ReferenceOnly(n) ==
  /\ n # NilNode
  /\ n.kind = MappingNode
  /\ Len(n.content) = 2
  /\ n.content[1].value = "$ref"

RefTarget(n) == n.content[2].value
RefOf(name) == "#/components/schemas/" \o name

\* The positions of the values of a mapping's entries, and the key of one.
ValueIndices(n) ==
  IF n = NilNode \/ n.kind # MappingNode THEN {}
  ELSE {m \in 1..Len(n.content) : m % 2 = 0}

KeyAt(n, m) == n.content[m - 1].value

\* The pointers one level below the pointers P of tree r: to the values of
\* the entries whose key is in keys, or of all entries.
Below(r, P, keys) ==
  UNION { {p \o <<m>> : m \in {v \in ValueIndices(nodeAt(r, p)) :
                                 KeyAt(nodeAt(r, p), v) \in keys}} : p \in P }

BelowAny(r, P) ==
  UNION { {p \o <<m>> : m \in ValueIndices(nodeAt(r, p))} : p \in P }

HTTPMethods == {"get", "post", "put", "delete", "patch", "options", "head"}

JSONMediaTypes ==
  {"application/json", "application/json; charset=UTF-8",
   "application/json; charset=utf-8"}

\* paths.<path>.<method>.responses.<status>.content.<JSON media type>.schema
ResponseSchemaPaths(r) ==
  IF r = NilNode \/ r.kind # DocumentNode \/ Len(r.content) = 0 THEN {}
  ELSE Below(r,
         Below(r,
           Below(r,
             BelowAny(r,
               Below(r,
                 Below(r, BelowAny(r, Below(r, {<<1>>}, {"paths"})), HTTPMethods),
                 {"responses"})),
             {"content"}),
           JSONMediaTypes),
         {"schema"})

\* paths.<path>.<method>.responses.<status>
ResponsePaths(r) ==
  IF r = NilNode \/ r.kind # DocumentNode \/ Len(r.content) = 0 THEN {}
  ELSE BelowAny(r,
         Below(r,
           Below(r, BelowAny(r, Below(r, {<<1>>}, {"paths"})), HTTPMethods),
           {"responses"}))

\* The operationId of the operation a response belongs to, "" without one.
OperationIDAt(r, rp) ==
  With(getMapValue(nodeAt(r, SubSeq(rp, 1, 4)), "operationId"), LAMBDA n :
    IF n # NilNode /\ n.kind = ScalarNode THEN n.value ELSE "")

InlineSchemaPaths(r) ==
  {p \in ResponseSchemaPaths(r) :
     nodeAt(r, p).kind = MappingNode /\ ~ReferenceOnly(nodeAt(r, p))}

ReferenceOnlyPaths(r) == {p \in ResponseSchemaPaths(r) : ReferenceOnly(nodeAt(r, p))}

\* The use-sites the first call of the pass looked at.
FirstPassSites == {sites[n] : n \in {m \in 1..Len(sites) : sites[m].pass = 1}}

\* The schema of a use-site: its pointer, what the pass was given there,
\* and what is there now.
SchemaPathOf(s) == responseSchemaPath(rootAtCall, s.response)
SchemaBefore(s) == nodeAt(rootAtCall, SchemaPathOf(s))
SchemaAfter(s) == nodeAt(root, SchemaPathOf(s))
Inline(s) == SchemaPathOf(s) # <<>> /\ ~ReferenceOnly(SchemaBefore(s))

\* components.schemas now, and as the pass was given it (NilNode: absent).
SchemasNode == nodeAt(root, schemasPath)
SchemasBefore ==
  getMapValue(getMapValue(rootAtCall.content[1], "components"), "schemas")

\* The use-site is the alternatives idiom at an operation that names it.
AlternativesSite(s) ==
  /\ Inline(s)
  /\ isAlternativesAllOf(getMapValue(SchemaBefore(s), "allOf"))
  /\ deriveSchemaName(s.operationID) # ""

\* componentizeSchema inserted the schema of the use-site: it got there and
\* found the fingerprint not registered.
Inserted(s) ==
  /\ Inline(s)
  /\ ~AlternativesSite(s)
  /\ schemaFingerprint(SchemaBefore(s)) \notin s.fpsBefore

BaseOf(s) ==
  With(deriveResponseSchemaNameHint(s.path, s.method, s.operationID, s.status),
       LAMBDA hint : IF hint = "" THEN "InlineSchema" ELSE hint)

\* The n-th element of base, base2, base3, ...
Candidate(base, n) == IF n = 1 THEN base ELSE base \o ToString(n)

\* The first element of that sequence that is not in names.
FirstFree(base, names) ==
  Candidate(base,
    CHOOSE n \in 1..(Cardinality(names) + 1) :
      /\ Candidate(base, n) \notin names
      /\ \A m \in 1..(n - 1) : Candidate(base, m) \in names)

\* The document the pass was given is one the structure checks reject.
BadStructure(d) ==
  \/ d.kind # DocumentNode
  \/ Len(d.content) = 0
  \/ d.content[1].kind # MappingNode
  \/ getMapValue(d.content[1], "paths") = NilNode
  \/ getMapValue(d.content[1], "paths").kind # MappingNode

StructureErrors ==
  {"expected YAML document", "expected top-level mapping",
   "missing or invalid 'paths' section"}

\* No file was created and none was written since the input was read.
Untouched ==
  /\ files[InPath] = File("doc", rootAtCall)
  /\ files[OtherPath] = File("absent", NilNode)

\* The destination holds the encoding of the tree, the other file is as it was.
Written ==
  /\ files[outPath] = File("doc", encodeYAML(root))
  /\ outPath # InPath => files[InPath] = File("doc", rootAtCall)
  /\ outPath # OtherPath => files[OtherPath] = File("absent", NilNode)

\* n is allOf[{$ref: B}, {type: object, properties: {alternatives:
\* {type: array, items: {$ref: B}}}}].
IsCompositeOf(n, B) ==
  /\ n # NilNode
  /\ With(getMapValue(n, "allOf"), LAMBDA allOf :
       /\ allOf # NilNode
       /\ allOf.kind = SequenceNode
       /\ Len(allOf.content) = 2
       /\ ReferenceOnly(allOf.content[1])
       /\ RefTarget(allOf.content[1]) = RefOf(B)
       /\ hasValue(allOf.content[2], "type", "object")
       /\ With(getMapValue(getMapValue(allOf.content[2], "properties"), "alternatives"),
            LAMBDA alts :
              /\ hasValue(alts, "type", "array")
              /\ ReferenceOnly(getMapValue(alts, "items"))
              /\ RefTarget(getMapValue(alts, "items")) = RefOf(B)))

(***************************************************************************)
(* Properties                                                              *)
(***************************************************************************)
\* C1 (idempotence): when the pass is applied again to the tree a successful
\* pass left, with a registry seeded from that tree, it succeeds, returns
\* changed = false, rewrites nothing at any use-site and leaves the tree as
\* it got it.
C1_Idempotence ==
  pass >= 2 =>
    /\ err = ""
    /\ changed = FALSE
    /\ root = rootAtCall
    /\ \A n \in 1..Len(sites) : sites[n].pass >= 2 => ~sites[n].changedHere

\* C1, its case: a second pass is over, on a tree whose first pass rewrote a
\* use-site the second pass looked at again.
C1_SecondPassRan ==
  /\ pass = 2
  /\ pc = "done"
  /\ \E s, t \in {sites[n] : n \in 1..Len(sites)} :
       /\ s.pass = 1 /\ s.changedHere
       /\ t.pass = 2 /\ t.response = s.response

\* C2 (deduplication): after the pass, two inline response schemas at
\* different operations with equal fingerprints are both reference-only,
\* point at the same component name, and at most one component was created
\* with their content.
C2_Deduplication ==
  Completed =>
    \A s, t \in FirstPassSites :
      ( /\ Inline(s) /\ Inline(t)
        /\ <<s.path, s.method>> # <<t.path, t.method>>
        /\ schemaFingerprint(SchemaBefore(s)) = schemaFingerprint(SchemaBefore(t)) )
      => /\ ReferenceOnly(SchemaAfter(s))
         /\ ReferenceOnly(SchemaAfter(t))
         /\ RefTarget(SchemaAfter(s)) = RefTarget(SchemaAfter(t))
         /\ Cardinality({m \in ValueIndices(SchemasNode) :
                           /\ m \notin ValueIndices(SchemasBefore)
                           /\ SchemasNode.content[m] = SchemaBefore(s)}) <= 1

\* C3 (no collision): after the pass, two rewritten use-sites that point at
\* the same component name had structurally equal schemas, and a rewritten
\* use-site that points at the name of a component the document already had
\* had a schema structurally equal to that component.
C3_NoCollision ==
  Completed =>
    \A s \in FirstPassSites :
      s.changedHere =>
        /\ \A t \in FirstPassSites :
             (t.changedHere /\ RefTarget(SchemaAfter(s)) = RefTarget(SchemaAfter(t)))
             => schemaFingerprint(SchemaBefore(s)) = schemaFingerprint(SchemaBefore(t))
        /\ \A m \in ValueIndices(SchemasBefore) :
             RefOf(KeyAt(SchemasBefore, m)) = RefTarget(SchemaAfter(s))
             => schemaFingerprint(SchemasBefore.content[m])
                  = schemaFingerprint(SchemaBefore(s))

\* C4 (unique naming): a schema componentizeSchema inserts gets the first of
\* base, base2, base3, ... that is not in existingNames; of two inserted
\* schemas with the same hint, where base and base2 are free when their turn
\* comes, the first gets base and the second base2; and each inserted schema
\* is the entry of components.schemas under its name.
C4_UniqueNaming ==
  pass = 1 =>
    \A n \in 1..Len(sites) :
      Inserted(sites[n]) =>
        /\ sites[n].name = FirstFree(BaseOf(sites[n]), sites[n].namesBefore)
        /\ getMapValue(SchemasNode, sites[n].name) = SchemaBefore(sites[n])
        /\ \A m \in (n + 1)..Len(sites) :
             ( /\ Inserted(sites[m])
               /\ BaseOf(sites[m]) = BaseOf(sites[n])
               /\ BaseOf(sites[n]) \notin sites[n].namesBefore
               /\ (BaseOf(sites[n]) \o "2") \notin sites[m].namesBefore )
             => /\ sites[n].name = BaseOf(sites[n])
                /\ sites[m].name = BaseOf(sites[n]) \o "2"

C6_AlternativesIdiom ==
  Completed =>
    \A s \in FirstPassSites :
      AlternativesSite(s) =>
        /\ getMapValue(SchemasNode, deriveSchemaName(s.operationID)) # NilNode
        /\ IsCompositeOf(
             getMapValue(SchemasNode,
                         deriveSchemaName(s.operationID) \o "WithAlternatives"),
             deriveSchemaName(s.operationID))
        /\ ReferenceOnly(SchemaAfter(s))
        /\ RefTarget(SchemaAfter(s))
             = RefOf(deriveSchemaName(s.operationID) \o "WithAlternatives")

\* The response the walker is about to hand to processResponseSchema has a
\* reference-only schema where the pass reads it.
AtReferenceOnlySite ==
  /\ pc = "responses"
  /\ k < Len(nodeAt(root, respPathOf(root)).content)
  /\ With(responseSchemaPath(root, respPathOf(root) \o <<k + 2>>), LAMBDA p :
       p # <<>> /\ ReferenceOnly(nodeAt(root, p)))

\* C7 (reference preservation): no step of the run changes a response schema
\* that is reference-only, and the step that looks at one leaves the tree
\* (components.schemas with it), byFingerprint, existingNames and changed as
\* they are.
C7_ReferencePreserved ==
  [][ /\ \A p \in ReferenceOnlyPaths(root) : nodeAt(root', p) = nodeAt(root, p)
      /\ AtReferenceOnlySite =>
           /\ root' = root
           /\ byFingerprint' = byFingerprint
           /\ existingNames' = existingNames
           /\ changed' = changed ]_vars

\* C7, its case: the pass is over, it looked at a use-site that was
\* reference-only and rewrote another one.
C7_ReferenceOnlySiteSeen ==
  /\ Completed
  /\ changed
  /\ \E s \in FirstPassSites :
       /\ SchemaPathOf(s) # <<>>
       /\ ReferenceOnly(SchemaBefore(s))
       /\ SchemaAfter(s) = SchemaBefore(s)

\* C8 (structure failure): when the parsed document has no top-level mapping
\* or no paths mapping, the pass returns one of its structure errors with
\* changed = false, FormatFile ends with that error, and no file was created
\* or written.
C8_StructureFailure ==
  (pass >= 1 /\ BadStructure(rootAtCall)) =>
    /\ pc = "done"
    /\ err \in StructureErrors
    /\ changed = FALSE
    /\ Untouched

\* C8, its case: a run asked to write to another file ended with the error
\* about paths.
C8_PathsRejected ==
  /\ pass = 1
  /\ pc = "done"
  /\ BadStructure(rootAtCall)
  /\ err = "missing or invalid 'paths' section"
  /\ ~cmd.DryRun
  /\ outPath = OtherPath

\* C9 (components tolerated): on a document of good structure the pass
\* returns no structure error; when components or components.schemas was
\* missing or no mapping, components.schemas is an empty mapping when the
\* walk starts; and components.schemas is a mapping in which every name the
\* pass gave a use-site is a key.
C9_ComponentsTolerated ==
  /\ (pass = 1 /\ ~BadStructure(rootAtCall)) => err \notin StructureErrors
  /\ (pass = 1 /\ pc = "paths" /\ i = 0
        /\ (SchemasBefore = NilNode \/ SchemasBefore.kind # MappingNode))
       => (SchemasNode.kind = MappingNode /\ SchemasNode.content = <<>>)
  /\ (pass = 1 /\ pc \in {"paths", "methods", "responses"})
       => /\ SchemasNode.kind = MappingNode
          /\ \A s \in FirstPassSites :
               s.changedHere => getMapValue(SchemasNode, s.name) # NilNode

FilesAsBefore ==
  /\ files[OtherPath] = File("absent", NilNode)
  /\ files[InPath].state \in {"doc", "garbage", "unreadable"}
  /\ pass = 1 => files[InPath] = File("doc", rootAtCall)

\* FormatFile is at a step before os.Create: the in-memory rewrite has not
\* been completed, or its result has not been looked at yet.
RewriteNotOver ==
  \/ pass = 0 /\ pc \in {"run", "open", "parse", "refactor"}
  \/ pass = 1 /\ pc \in {"paths", "methods", "responses", "dryrun", "create"}

\* C11 (all-or-nothing output): no file is created, truncated or written
\* before the pass has returned without error, and when FormatFile ends with
\* an error (open, decode, structure, create, encode) the destination and the
\* other file hold what they held before the run.
C11_AllOrNothing ==
  /\ RewriteNotOver => FilesAsBefore
  /\ (pass <= 1 /\ pc = "done" /\ err # "") => FilesAsBefore

\* Leading-capitalized form of the characters cs, position by position: a
\* separator (_ or -) is dropped, a character that comes first or right
\* after a separator is upper-cased, every other character is kept.
Separators == {"_", "-"}
LeadingCapitalized(cs) ==
  Str([n \in 1..Len(cs) |->
         IF cs[n] \in Separators THEN ""
         ELSE IF n = 1 \/ cs[n - 1] \in Separators THEN ToUpper(cs[n])
         ELSE cs[n]])

\* The segment of path characters cs that position n lies in: where it
\* starts and ends, and whether it is a path parameter {...}.
SegmentStart(cs, n) ==
  CHOOSE b \in 1..n :
    /\ (b = 1 \/ cs[b - 1] = "/")
    /\ \A m \in b..n : cs[m] # "/"
SegmentEnd(cs, n) ==
  CHOOSE e \in n..Len(cs) :
    /\ (e = Len(cs) \/ cs[e + 1] = "/")
    /\ \A m \in n..e : cs[m] # "/"
IsParameter(cs, n) ==
  /\ SegmentStart(cs, n) < SegmentEnd(cs, n)
  /\ cs[SegmentStart(cs, n)] = "{"
  /\ cs[SegmentEnd(cs, n)] = "}"

\* The leading-capitalized segments of a path, concatenated: slashes and the
\* braces around a path parameter are dropped, and so are separators; the
\* first character of a segment (inside the braces) and a character after a
\* separator are upper-cased.
CapitalizedSegments(cs) ==
  Str([n \in 1..Len(cs) |->
         IF cs[n] = "/" \/ cs[n] \in Separators THEN ""
         ELSE IF IsParameter(cs, n) /\ n \in {SegmentStart(cs, n), SegmentEnd(cs, n)}
         THEN ""
         ELSE IF \/ n = SegmentStart(cs, n) + (IF IsParameter(cs, n) THEN 1 ELSE 0)
                 \/ cs[n - 1] \in Separators
         THEN ToUpper(cs[n])
         ELSE cs[n]])

\* The name of the fallback: segments, method, status, "Response".
FallbackName(path, method, status) ==
  CapitalizedSegments(Chars(path))
    \o LeadingCapitalized(ToLower(Chars(method)))
    \o LeadingCapitalized(Chars(IF status = "" THEN "Default" ELSE status))
    \o "Response"

\* The operationId is empty, or only one of the verb prefixes (in any case).
NoOperationName(id) ==
  \/ id = ""
  \/ \E n \in 1..Len(prefixes) : ToLower(Chars(id)) = prefixes[n]

\* C12 (fallback naming): a use-site at an operation whose operationId is
\* empty, or empty after prefix stripping, whose schema componentizeSchema
\* inserts, gets the first free name over the concatenation of the
\* leading-capitalized non-empty path segments (parameter braces removed), the
\* leading-capitalized lower-cased method, the leading-capitalized status
\* ("Default" for the empty status key) and "Response"; /flights/{id}/track,
\* get, 200 gives FlightsIdTrackGet200Response.
C12_FallbackNaming ==
  \A n \in 1..Len(sites) :
    (Inserted(sites[n]) /\ sites[n].pass = 1 /\ NoOperationName(sites[n].operationID)) =>
      /\ sites[n].name
           = FirstFree(FallbackName(sites[n].path, sites[n].method, sites[n].status),
                       sites[n].namesBefore)
      /\ ( /\ sites[n].path = "/flights/{id}/track"
           /\ sites[n].method = "get"
           /\ sites[n].status = "200"
           /\ sites[n].namesBefore = {} )
         => sites[n].name = "FlightsIdTrackGet200Response"

\* C12, its case: the pass has inserted the schema of GET /flights/{id}/track,
\* status 200, at an operation without an operationId.
C12_FallbackNameGiven ==
  /\ pc = "done"
  /\ \E n \in 1..Len(sites) :
       /\ Inserted(sites[n])
       /\ sites[n].operationID = ""
       /\ sites[n].path = "/flights/{id}/track"
       /\ sites[n].method = "get"
       /\ sites[n].status = "200"
       /\ sites[n].name = "FlightsIdTrackGet200Response"

\* The pass is between the seeding of the registry and its return.
InPass == pass >= 1 /\ pc \in {"paths", "methods", "responses"}

\* The entries of the components.schemas mapping whose key is name.
EntriesNamed(name) ==
  {m \in ValueIndices(SchemasNode) : KeyAt(SchemasNode, m) = name}

\* C13 (registry name invariant): during a pass every name in existingNames
\* is the key of exactly one entry of the components.schemas mapping, and
\* every key of that mapping is in existingNames.
C13_RegistryNames ==
  InPass =>
    /\ \A name \in existingNames : Cardinality(EntriesNamed(name)) = 1
    /\ \A m \in ValueIndices(SchemasNode) : KeyAt(SchemasNode, m) \in existingNames

\* C14 (registry fingerprint invariant): during a pass, for every fingerprint
\* fp in byFingerprint the entry of components.schemas under byFingerprint[fp]
\* has fingerprint fp; and every use-site componentizeSchema has rewritten
\* points at an entry with the fingerprint of the schema the use-site held.
C14_RegistryFingerprints ==
  InPass =>
    /\ \A fp \in DOMAIN byFingerprint :
         schemaFingerprint(getMapValue(SchemasNode, byFingerprint[fp])) = fp
    /\ pass = 1 =>
         \A s \in FirstPassSites :
           (Inline(s) /\ ~AlternativesSite(s)) =>
             /\ RefTarget(SchemaAfter(s)) = RefOf(s.name)
             /\ schemaFingerprint(getMapValue(SchemasNode, s.name))
                  = schemaFingerprint(SchemaBefore(s))

\* The pointer to the schema of the response the walker is about to hand to
\* processResponseSchema, <<>> when there is none to read.
NextSchemaPath ==
  IF pc = "responses" /\ k < Len(nodeAt(root, respPathOf(root)).content)
  THEN responseSchemaPath(root, respPathOf(root) \o <<k + 2>>)
  ELSE <<>>

\* That schema is inline and its fingerprint is registered.
AtRegisteredSite ==
  /\ NextSchemaPath # <<>>
  /\ ~ReferenceOnly(nodeAt(root, NextSchemaPath))
  /\ schemaFingerprint(nodeAt(root, NextSchemaPath)) \in DOMAIN byFingerprint

\* The step made the schema at p a reference to the name registered for its
\* fingerprint, set changed and left components.schemas as it was.
ReusedAt(p) ==
  /\ ReferenceOnly(nodeAt(root', p))
  /\ RefTarget(nodeAt(root', p)) = RefOf(byFingerprint[schemaFingerprint(nodeAt(root, p))])
  /\ changed'
  /\ nodeAt(root', schemasPath) = nodeAt(root, schemasPath)

\* C15 (reuse of registered schemas): the step that meets an inline response
\* schema whose fingerprint is registered makes the use-site a $ref to the
\* registered name, sets changed and adds no entry to components.schemas.
C15_RegisteredSchemaReused ==
  [][ AtRegisteredSite => ReusedAt(NextSchemaPath) ]_vars

\* The fixed priority order of the JSON media-type keys.
PriorityOrder ==
  << "application/json; charset=UTF-8", "application/json",
     "application/json; charset=utf-8" >>

\* The key of a content map that comes first in that order, "(none)" when
\* the map holds none of the three.
FirstInPriority(content) ==
  IF \E n \in 1..3 : getMapValueExists(content, PriorityOrder[n])
  THEN PriorityOrder[CHOOSE n \in 1..3 :
                       /\ getMapValueExists(content, PriorityOrder[n])
                       /\ \A m \in 1..(n - 1) : ~getMapValueExists(content, PriorityOrder[m])]
  ELSE "(none)"

\* The content map of the response at rp in tree r, and the pointer to it.
ContentOf(r, rp) == getMapValue(nodeAt(r, rp), "content")
ContentPath(r, rp) == rp \o <<mapValueIndex(nodeAt(r, rp), "content")>>

\* C16 (media-type priority): in every state of a pass and after it, under
\* every response, the entry of the content map under every key but the one
\* that comes first in the priority order (the other JSON spellings that are
\* present, and every other media type) is as the pass was given it.
C16_MediaTypePriority ==
  pass >= 1 =>
    \A rp \in ResponsePaths(rootAtCall) :
      \A m \in ValueIndices(ContentOf(rootAtCall, rp)) :
        KeyAt(ContentOf(rootAtCall, rp), m) # FirstInPriority(ContentOf(rootAtCall, rp))
        => nodeAt(root, ContentPath(rootAtCall, rp) \o <<m>>)
             = ContentOf(rootAtCall, rp).content[m]

\* C16, its case: the pass is over; a response held application/json first
\* and application/json; charset=UTF-8 second, both with an inline schema;
\* the schema under the second key was rewritten, the one under the first
\* key is still inline.
C16_OnlyFirstInPriorityRewritten ==
  /\ Completed
  /\ \E rp \in ResponsePaths(rootAtCall) :
       /\ Len(ContentOf(rootAtCall, rp).content) = 4
       /\ KeyAt(ContentOf(rootAtCall, rp), 2) = "application/json"
       /\ KeyAt(ContentOf(rootAtCall, rp), 4) = "application/json; charset=UTF-8"
       /\ ~ReferenceOnly(getMapValue(ContentOf(rootAtCall, rp).content[2], "schema"))
       /\ ~ReferenceOnly(getMapValue(ContentOf(rootAtCall, rp).content[4], "schema"))
       /\ ~ReferenceOnly(getMapValue(ContentOf(root, rp).content[2], "schema"))
       /\ ReferenceOnly(getMapValue(ContentOf(root, rp).content[4], "schema"))

\* The entries of the components.schemas mapping of tree r, as the flat list
\* key, value, key, value, ...; none when there is no such mapping.
SchemaEntries(r) ==
  IF r = NilNode \/ r.kind # DocumentNode \/ Len(r.content) = 0 THEN <<>>
  ELSE With(getMapValue(getMapValue(r.content[1], "components"), "schemas"), LAMBDA n :
         IF n = NilNode \/ n.kind # MappingNode THEN <<>> ELSE n.content)

IsPrefix(a, b) == Len(a) <= Len(b) /\ SubSeq(b, 1, Len(a)) = a

\* C17 (append-only): no step removes, renames, reorders or modifies an entry
\* of components.schemas; the entries after a step are the entries before it,
\* in their order, followed by the entries the step added, so new entries
\* stand in the order in which their use-sites were met.
C17_AppendOnly ==
  [][ IsPrefix(SchemaEntries(root), SchemaEntries(root')) ]_vars

\* C17, its case: the pass is over on a document that had components; two
\* use-sites each got a name that was new, and the entry of the earlier
\* use-site stands after the old entries and before the entry of the later
\* one.
C17_AppendedInOrder ==
  /\ Completed
  /\ SchemaEntries(rootAtCall) # <<>>
  /\ \E n, m \in 1..Len(sites) :
       /\ n < m
       /\ sites[n].changedHere /\ sites[n].name \notin sites[n].namesBefore
       /\ sites[m].changedHere /\ sites[m].name \notin sites[m].namesBefore
       /\ Len(SchemaEntries(rootAtCall)) < mapValueIndex(SchemasNode, sites[n].name)
       /\ mapValueIndex(SchemasNode, sites[n].name)
            < mapValueIndex(SchemasNode, sites[m].name)

\* A call of the pass has returned without error: changed is what it
\* returned, rootAtCall the tree it was given, root the tree it left.
PassReturned ==
  /\ pass >= 1
  /\ pc \in {"dryrun", "create", "write", "done"}
  /\ err \notin StructureErrors

\* The response schemas that were no reference when the pass got the tree
\* and are reference-only now.
RewrittenPaths ==
  {p \in ResponseSchemaPaths(rootAtCall) :
     ~ReferenceOnly(nodeAt(rootAtCall, p)) /\ ReferenceOnly(nodeAt(root, p))}

\* C18 (changed): the boolean a successful pass returns is true exactly when
\* at least one response schema use-site of the document was rewritten into
\* a reference during the pass.
C18_ChangedIffRewritten ==
  PassReturned => (changed <=> RewrittenPaths # {})

\* C18, its case: a pass returned true after it rewrote a use-site and then
\* looked at later use-sites, the last of them included, that reported no
\* change.
C18_ChangeKeptToTheEnd ==
  /\ PassReturned
  /\ pass = 1
  /\ changed
  /\ Len(sites) >= 2
  /\ sites[1].changedHere
  /\ ~sites[Len(sites)].changedHere

\* Of a schema allOf[base, extension]: the base object, and the items schema
\* of the extension's properties.alternatives.
AllOfBase(schema) == getMapValue(schema, "allOf").content[1]
AlternativesItems(schema) ==
  getMapValue(
    getMapValue(getMapValue(getMapValue(schema, "allOf").content[2], "properties"),
                "alternatives"),
    "items")

\* C19 (same shape): at every use-site the alternatives rewrite was applied
\* to, the items schema of properties.alternatives was structurally equal to
\* allOf[0].
C19_AlternativesSameShape ==
  pass = 1 =>
    \A s \in FirstPassSites :
      AlternativesSite(s) =>
        schemaFingerprint(AlternativesItems(SchemaBefore(s)))
          = schemaFingerprint(AllOfBase(SchemaBefore(s)))

\* The addresses of the node objects in the tree under n.
RECURSIVE Addresses(_)
Addresses(n) ==
  (IF "addr" \in DOMAIN n THEN {n.addr} ELSE {})
    \cup UNION {Addresses(n.content[c]) : c \in 1..Len(n.content)}

\* The positions in the Content of the components.schemas node of the values
\* the pass has added: those behind what the node held when the pass got it.
AddedIndices ==
  {m \in 1..Len(SchemasNode.content) :
     m % 2 = 0 /\ m > (IF SchemasBefore = NilNode THEN 0 ELSE Len(SchemasBefore.content))}

\* C20 (no aliasing): during a pass, no node object in an entry the pass has
\* added to components.schemas is a node object reachable from paths.
C20_NoAliasing ==
  InPass =>
    \A m \in AddedIndices :
      Addresses(SchemasNode.content[m]) \cap Addresses(pathsNodeOf(root)) = {}

\* C20, its case: the pass has rewritten in place a use-site whose node
\* object is the one the decoder built there, and the entry it added for it
\* holds the content the use-site had in node objects of its own.
C20_CloneStoredUseSiteRewritten ==
  /\ InPass
  /\ pass = 1
  /\ \E s \in FirstPassSites :
       /\ Inserted(s)
       /\ "addr" \in DOMAIN SchemaAfter(s)
       /\ SchemaAfter(s).addr = SchemaPathOf(s)
       /\ ReferenceOnly(SchemaAfter(s))
       /\ \E m \in AddedIndices :
            /\ KeyAt(SchemasNode, m) = s.name
            /\ schemaFingerprint(SchemasNode.content[m]) = schemaFingerprint(SchemaBefore(s))
            /\ Addresses(SchemasNode.content[m]) = {}

\* The values of the $ref entries of the mappings in the tree under n.
RECURSIVE RefsIn(_)
RefsIn(n) ==
  (IF n.kind = MappingNode
   THEN {n.content[m].value : m \in {v \in ValueIndices(n) : KeyAt(n, v) = "$ref"}}
   ELSE {})
    \cup UNION {RefsIn(n.content[c]) : c \in 1..Len(n.content)}

\* The $ref values the pass wrote: at the use-sites it rewrote, and in the
\* values it added to components.schemas (no schema of the input documents
\* that the pass copies there holds a $ref of its own).
RefsWritten ==
  {RefTarget(nodeAt(root, p)) : p \in RewrittenPaths}
    \cup UNION {RefsIn(SchemasNode.content[m]) : m \in AddedIndices}

\* ref is #/components/schemas/<name> for a key <name> of the
\* components.schemas mapping.
Resolves(ref) ==
  \E m \in ValueIndices(SchemasNode) : ref = RefOf(KeyAt(SchemasNode, m))

\* C21 (no dangling references): when a pass has returned without error,
\* every $ref value it wrote, at a response use-site or inside a composite
\* schema it built, is #/components/schemas/<name> for a name that is the key
\* of an entry of the components.schemas mapping.
C21_NoDanglingReferences ==
  PassReturned => \A ref \in RefsWritten : Resolves(ref)

\* A call of the pass has returned, with or without an error: changed is
\* what it returned, rootAtCall the tree it was given, root the tree it left.
PassEnded ==
  /\ pass >= 1
  /\ pc \in {"dryrun", "create", "write", "done"}

\* C22 (unchanged means untouched): whenever the pass has returned
\* changed = false, with or without an error, the document tree is the tree
\* the pass was given: no node was added, removed or modified.
C22_UnchangedTreeIdentical ==
  (PassEnded /\ ~changed) => root = rootAtCall

====
